---- MODULE Spec2Model ----
(***************************************************************************)
(* A model of train/models.py (nnsplit): the Network LightningModule, its  *)
(* construction and bias freezing, forward shape propagation, the          *)
(* validation counters and metrics, the data loaders, and the export       *)
(* routine `store`.                                                        *)
(*                                                                         *)
(* Tensors of parameters are represented by one scalar per tensor, a       *)
(* fixed-point number in units of 2^-13 (so 8192 is 1.0).  float32 holds   *)
(* every value used here exactly; float16 keeps 11 significant bits.       *)
(***************************************************************************)
EXTENDS Integers, Sequences, FiniteSets, Bags, TLC

VARIABLES
    self,           \* the live Network instance (None before construction)
    fs,             \* the file system: directory -> [exists, files]
    ret,            \* what the last call returned or raised
    val_seen,       \* every (logit, label) position the validation pass has consumed
    val_outputs,    \* the list of validation_step results of the current pass
    dataset_len,    \* len(dataset) built by prepare_data from the files on disk
    mt_stream,      \* the generator stream each seed determines (fixed, unknown)
    train_indices,  \* indices of self.train_dataset (a Subset of dataset)
    valid_indeces,  \* indices of self.valid_dataset (a Subset of dataset)
    epoch_indices,  \* the index multiset of the last epoch sample
    val_iterated    \* the dataset examples the last validation loader iterates

vars == <<self, fs, ret, val_seen, val_outputs, dataset_len, mt_stream,
          train_indices, valid_indeces, epoch_indices, val_iterated>>

netVars == <<self, fs>>
valVars == <<val_seen, val_outputs>>
dataVars == <<dataset_len, mt_stream, train_indices, valid_indeces,
              epoch_indices, val_iterated>>

----------------------------------------------------------------------------
(* Bounds of the model *)

MaxBatch == 2        \* largest batch dimension of a forward input
MaxLength == 2       \* largest length dimension of a forward input
MaxValPositions == 2 \* most (position, channel-pair) rows one validation pass holds
MaxCount == 3        \* largest per-batch count handed to validation_epoch_end
MaxExtra == 2        \* most examples the dataset holds beyond the validation size

----------------------------------------------------------------------------
(* Values *)

None == [kind |-> "None"]

\* Parameter values the initialiser and the optimizer may produce
\* (units of 2^-13): 3 is exact in float16, 2051 needs 12 bits.
TrainValues == {3, 2051}

\* Values the random initialiser of a fresh module may produce
InitValues == {3, 2051}

RECURSIVE Pow2(_)
Pow2(n) == IF n = 0 THEN 1 ELSE 2 * Pow2(n - 1)

RECURSIVE BitLen(_)
BitLen(v) == IF v = 0 THEN 0 ELSE 1 + BitLen(v \div 2)

Abs(v) == IF v < 0 THEN 0 - v ELSE v

\* round v to a multiple of q, ties to the even multiple
RoundHalfEven(v, q) ==
    LET lo == (v \div q) * q
        r == v - lo
    IN  IF 2 * r < q THEN lo
        ELSE IF 2 * r > q THEN lo + q
        ELSE IF (lo \div q) % 2 = 0 THEN lo ELSE lo + q

HalfSignificand == 11

\* Tensor.half(): float32 -> float16, round to nearest even on 11 significant bits
ToHalf(v) ==
    LET m == Abs(v)
        rounded == IF BitLen(m) <= HalfSignificand THEN m
                   ELSE RoundHalfEven(m, Pow2(BitLen(m) - HalfSignificand))
    IN  IF v < 0 THEN 0 - rounded ELSE rounded

\* Tensor.float(): float16 -> float32 is exact
ToFloat(v) == v

----------------------------------------------------------------------------
(* Modules and their parameters *)

LSTMParamNames ==
    { <<k, g, "l0", d>> : k \in {"weight", "bias"}, g \in {"ih", "hh"},
                          d \in {"", "reverse"} }

\* name.startswith(prefix), names being split at the underscores
startswith(name, prefix) == name[1] = prefix

Embedding(num_embeddings, embedding_dim, w) ==
    [num_embeddings |-> num_embeddings, embedding_dim |-> embedding_dim,
     data |-> [n \in {<<"weight">>} |-> w],
     requires_grad |-> [n \in {<<"weight">>} |-> TRUE]]

LSTM(input_size, hidden_size, bidirectional, w) ==
    [input_size |-> input_size, hidden_size |-> hidden_size,
     bidirectional |-> bidirectional,
     data |-> [n \in LSTMParamNames |-> w],
     requires_grad |-> [n \in LSTMParamNames |-> TRUE]]

Linear(in_features, out_features, w) ==
    [in_features |-> in_features, out_features |-> out_features,
     data |-> [n \in {<<"weight">>, <<"bias">>} |-> w],
     requires_grad |-> [n \in {<<"weight">>, <<"bias">>} |-> TRUE]]

\* a plausible slip: the bias is zeroed but stays trainable
FreezeBiasKeepsGrad(lstm) ==
    [lstm EXCEPT !.data = [n \in DOMAIN @ |->
                              IF startswith(n, "bias") THEN 0 ELSE @[n]]]

_freeze_bias(lstm) ==
    [lstm EXCEPT
        !.requires_grad = [n \in DOMAIN @ |->
                              IF startswith(n, "bias") THEN FALSE ELSE @[n]],
        !.data = [n \in DOMAIN @ |->
                              IF startswith(n, "bias") THEN 0 ELSE @[n]]]

ModuleNames == {"embedding", "lstm1", "lstm2", "out"}

\* a plausible slip: the assert is dropped, the instance is returned unchecked
NetworkInitUnchecked(w, close) ==
    [raised |-> "none",
     instance |->
        [kind |-> "Network",
         embedding |-> Embedding(256, 32, w),
         lstm1 |-> _freeze_bias(LSTM(32, 128, TRUE, w)),
         lstm2 |-> _freeze_bias(LSTM(256, 64, TRUE, w)),
         out |-> Linear(128, 2, w),
         dtype |-> "float", device |-> "cpu"]]

\* Network.__init__: w is the random initial value, close the result of
\* self.keras_outputs_are_close() on the freshly built layers
NetworkInit(w, close) ==
    LET built == [kind |-> "Network",
                  embedding |-> Embedding(256, 32, w),
                  lstm1 |-> _freeze_bias(LSTM(32, 128, TRUE, w)),
                  lstm2 |-> _freeze_bias(LSTM(256, 64, TRUE, w)),
                  out |-> Linear(128, 2, w),
                  dtype |-> "float", device |-> "cpu"]
    IN  IF close THEN [raised |-> "none", instance |-> built]
        ELSE [raised |-> "AssertionError", instance |-> None]

\* state_dict(): module -> parameter name -> value
state_dict(net) == [m \in ModuleNames |-> net[m].data]

\* half(): Module._apply casts every parameter, requires_grad kept
half(net) ==
    [net EXCEPT !.embedding.data = [n \in DOMAIN @ |-> ToHalf(@[n])],
                !.lstm1.data = [n \in DOMAIN @ |-> ToHalf(@[n])],
                !.lstm2.data = [n \in DOMAIN @ |-> ToHalf(@[n])],
                !.out.data = [n \in DOMAIN @ |-> ToHalf(@[n])],
                !.dtype = "half"]

\* float(): Module._apply casts every parameter, requires_grad kept
float(net) ==
    [net EXCEPT !.embedding.data = [n \in DOMAIN @ |-> ToFloat(@[n])],
                !.lstm1.data = [n \in DOMAIN @ |-> ToFloat(@[n])],
                !.lstm2.data = [n \in DOMAIN @ |-> ToFloat(@[n])],
                !.out.data = [n \in DOMAIN @ |-> ToFloat(@[n])],
                !.dtype = "float"]

cuda(net) == [net EXCEPT !.device = "cuda"]
cpu(net) == [net EXCEPT !.device = "cpu"]

\* load_state_dict: copy_ into the existing parameters, which keep their
\* own dtype, device and requires_grad
load_state_dict(net, sd) ==
    [net EXCEPT !.embedding.data = [n \in DOMAIN @ |-> ToFloat(sd["embedding"][n])],
                !.lstm1.data = [n \in DOMAIN @ |-> ToFloat(sd["lstm1"][n])],
                !.lstm2.data = [n \in DOMAIN @ |-> ToFloat(sd["lstm2"][n])],
                !.out.data = [n \in DOMAIN @ |-> ToFloat(sd["out"][n])]]

\* one Adam step over self.parameters(): a parameter whose grad is None
\* (requires_grad False) is skipped, every other one moves to a new value
AdamStep(net, w) ==
    LET upd(m) == [n \in DOMAIN m.data |->
                      IF m.requires_grad[n] THEN w ELSE m.data[n]]
    IN  [net EXCEPT !.embedding.data = upd(net.embedding),
                    !.lstm1.data = upd(net.lstm1),
                    !.lstm2.data = upd(net.lstm2),
                    !.out.data = upd(net.out)]

\* the optimizer writes values of the parameter's own dtype
OptimizerStep(net, w) ==
    AdamStep(net, IF net.dtype = "half" THEN ToHalf(w) ELSE w)

----------------------------------------------------------------------------
(* forward: shape propagation through the four layers *)

Bytes == {0, 255}

RaiseShape(e) == [raised |-> e, shape |-> <<>>]

\* x is a batch: a sequence of rows of bytes, all of one length
shape_of(x) == <<Len(x), Len(x[1])>>

\* x.long() widens uint8 to int64 and keeps every value
long(x) == x

embedding_forward(emb, x) ==
    IF \E i \in 1..Len(x) : \E j \in 1..Len(x[i]) :
           x[i][j] < 0 \/ x[i][j] >= emb.num_embeddings
    THEN RaiseShape("IndexError")
    ELSE [raised |-> "none", shape |-> shape_of(x) \o <<emb.embedding_dim>>]

lstm_forward(lstm, h) ==
    IF h.raised # "none" THEN h
    ELSE IF h.shape[3] # lstm.input_size THEN RaiseShape("RuntimeError")
    ELSE [raised |-> "none",
          shape |-> <<h.shape[1], h.shape[2],
                      (IF lstm.bidirectional THEN 2 ELSE 1) * lstm.hidden_size>>]

linear_forward(lin, h) ==
    IF h.raised # "none" THEN h
    ELSE IF h.shape[3] # lin.in_features THEN RaiseShape("RuntimeError")
    ELSE [raised |-> "none",
          shape |-> <<h.shape[1], h.shape[2], lin.out_features>>]

\* a plausible slip: the second recurrent layer is skipped
forward_skip_lstm2(net, x) ==
    linear_forward(net.out, lstm_forward(net.lstm1,
        embedding_forward(net.embedding, long(x))))

forward(net, x) ==
    LET h0 == embedding_forward(net.embedding, long(x))
        h1 == lstm_forward(net.lstm1, h0)
        h2 == lstm_forward(net.lstm2, h1)
    IN  linear_forward(net.out, h2)

\* the inputs tried: every shape up to the bounds, filled with one byte
Batches ==
    { [i \in 1..b |-> [j \in 1..l |-> v]] :
        b \in 1..MaxBatch, l \in 1..MaxLength, v \in Bytes }

----------------------------------------------------------------------------
(* store: the export routine *)

Dirs == {"out"}

\* the class attributes of Network
NetworkAttrs ==
    [TORCHSCRIPT_CPU_NAME |-> "torchscript_cpu_model.pt",
     TORCHSCRIPT_CUDA_NAME |-> "torchscript_cuda_model.pt",
     ONNX_NAME |-> "model.onnx"]

hasattr(name) == name \in DOMAIN NetworkAttrs

\* where an export step outside this file may raise: quantize/trace/save of
\* path 1, trace/save of path 2, torch.onnx.export, the tensorflowjs import
\* or get_keras_equivalent of path 4
FailPoints == {"none", "path1", "path2", "path3", "path4"}

NoDir == [exists |-> FALSE, files |-> <<>>]

mkdir(dir) == [dir EXCEPT !.exists = TRUE]

\* write (or overwrite) one file of the directory
save(dir, name, content) ==
    [dir EXCEPT !.files = (name :> content) @@ @]

Raise(st, e) == [st EXCEPT !.raised = e]

Done(st, event) == [st EXCEPT !.events = Append(@, event)]

\* path 1 (lines 146-152): a fresh Network, the live parameters loaded into
\* it, dynamic quantization, trace, save
Path1(st, w0, close, fail) ==
    LET made == NetworkInit(w0, close)
    IN  IF made.raised # "none" THEN Raise(st, made.raised)
        ELSE LET quantized_model ==
                     load_state_dict(made.instance, state_dict(st.self))
             IN  IF fail = "path1" THEN Raise(st, "ExportError")
                 ELSE Done([st EXCEPT !.dir =
                        save(@, NetworkAttrs["TORCHSCRIPT_CPU_NAME"],
                             [format |-> "torchscript", dtype |-> "qint8",
                              device |-> "cpu",
                              weights |-> state_dict(quantized_model)])],
                        "cpu")

\* path 2 (lines 154-160): the live network itself is cast and moved
Path2(st, cuda_available, fail) ==
    IF cuda_available
    THEN LET moved == [st EXCEPT !.self = cuda(half(@))]
         IN  IF fail = "path2" THEN Raise(moved, "ExportError")
             ELSE Done([moved EXCEPT !.dir =
                    save(@, NetworkAttrs["TORCHSCRIPT_CUDA_NAME"],
                         [format |-> "torchscript", dtype |-> "half",
                          device |-> "cuda",
                          weights |-> state_dict(moved.self)])],
                    "cuda")
    ELSE Done(st, "warn")

\* a plausible slip: a failing ONNX export is logged and the routine goes on
Path3Swallow(st, fail) ==
    LET moved == [st EXCEPT !.self = cpu(float(@))]
    IN  IF fail = "path3" THEN Done(moved, "warn")
        ELSE Done([moved EXCEPT !.dir =
               save(@, NetworkAttrs["ONNX_NAME"],
                    [format |-> "onnx", dtype |-> "float", device |-> "cpu",
                     weights |-> state_dict(moved.self)])],
               "onnx")

\* path 3 (lines 162-172): the live network cast back and moved back
Path3(st, fail) ==
    LET moved == [st EXCEPT !.self = cpu(float(@))]
    IN  IF fail = "path3" THEN Raise(moved, "ExportError")
        ELSE Done([moved EXCEPT !.dir =
               save(@, NetworkAttrs["ONNX_NAME"],
                    [format |-> "onnx", dtype |-> "float", device |-> "cpu",
                     weights |-> state_dict(moved.self)])],
               "onnx")

\* path 4 (lines 174-180): the arguments are evaluated first, and
\* self.TENSORFLOWJS_DIR_NAME is looked up among the class attributes
Path4(st, fail) ==
    IF fail = "path4" THEN Raise(st, "ExportError")
    ELSE IF ~hasattr("TENSORFLOWJS_DIR_NAME") THEN Raise(st, "AttributeError")
    ELSE Done([st EXCEPT !.dir =
           save(@, NetworkAttrs["TENSORFLOWJS_DIR_NAME"],
                [format |-> "tfjs", dtype |-> "uint8", device |-> "cpu",
                 weights |-> state_dict(st.self)])],
           "tfjs")

\* Network.store(directory), the whole call: a raise ends it
store(net, dir, cuda_available, w0, close, fail) ==
    LET s0 == [self |-> net, dir |-> mkdir(dir), events |-> <<"mkdir">>,
               raised |-> "none"]
        s1 == Path1(s0, w0, close, fail)
        s2 == IF s1.raised # "none" THEN s1 ELSE Path2(s1, cuda_available, fail)
        s3 == IF s2.raised # "none" THEN s2 ELSE Path3(s2, fail)
    IN  IF s3.raised # "none" THEN s3 ELSE Path4(s3, fail)

----------------------------------------------------------------------------
(* The network: construction, optimizer steps, forward, store *)

NoRet == [op |-> "none"]

InitNet ==
    /\ self = None
    /\ fs = [d \in Dirs |-> NoDir]
    /\ ret = NoRet
    /\ val_seen = <<>>
    /\ val_outputs = <<>>
    /\ dataset_len = 0
    /\ mt_stream = <<>>
    /\ train_indices = <<>>
    /\ valid_indeces = <<>>
    /\ epoch_indices = EmptyBag
    /\ val_iterated = <<>>

\* model = Network(hparams)
Construct ==
    /\ self = None
    /\ \E w \in InitValues, close \in BOOLEAN :
          LET made == NetworkInit(w, close)
          IN  /\ self' = made.instance
              /\ ret' = [op |-> "init", close |-> close, raised |-> made.raised,
                         instance |-> made.instance]
    /\ UNCHANGED <<fs, valVars, dataVars>>

\* one optimizer step of the training loop (configure_optimizers, line 111)
TrainingStep ==
    /\ self # None
    /\ \E w \in TrainValues :
          /\ self' = OptimizerStep(self, w)
          /\ ret' = [op |-> "training_step"]
    /\ UNCHANGED <<fs, valVars, dataVars>>

\* y_hat = self.forward(x)
Forward ==
    /\ self # None
    /\ \E x \in Batches :
          LET y == forward(self, x)
          IN  ret' = [op |-> "forward", x_shape |-> shape_of(x),
                      raised |-> y.raised, shape |-> y.shape,
                      before |-> state_dict(self)]
    /\ UNCHANGED <<self, fs, valVars, dataVars>>

\* self.store(directory)
Store ==
    /\ self # None
    /\ \E d \in Dirs, cuda_available \in BOOLEAN, w0 \in InitValues,
          close \in BOOLEAN, fail \in FailPoints :
          LET st == store(self, fs[d], cuda_available, w0, close, fail)
          IN  /\ self' = st.self
              /\ fs' = [fs EXCEPT ![d] = st.dir]
              /\ ret' = [op |-> "store", dir |-> d,
                         cuda_available |-> cuda_available,
                         close |-> close, fail |-> fail,
                         raised |-> st.raised, events |-> st.events,
                         dir_before |-> fs[d],
                         live_before |-> state_dict(self)]
    /\ UNCHANGED <<valVars, dataVars>>

NextNet == Construct \/ TrainingStep \/ Forward \/ Store

SpecNet == InitNet /\ [][NextNet]_vars

----------------------------------------------------------------------------
(* Properties of the network and of store *)

CpuName == NetworkAttrs["TORCHSCRIPT_CPU_NAME"]
CudaName == NetworkAttrs["TORCHSCRIPT_CUDA_NAME"]
OnnxName == NetworkAttrs["ONNX_NAME"]

FilesOf(d) == fs[d].files

HasFormat(files, format) == \E n \in DOMAIN files : files[n].format = format

IsPrefix(s, t) == Len(s) <= Len(t) /\ \A i \in 1..Len(s) : s[i] = t[i]

\* the order the four export paths run in
ExportOrder(cuda_available) ==
    <<"mkdir", "cpu", IF cuda_available THEN "cuda" ELSE "warn", "onnx", "tfjs">>

\* the files the completed paths of a call have written
Written(events) ==
    { n \in {CpuName, CudaName, OnnxName} :
        \/ n = CpuName /\ \E i \in 1..Len(events) : events[i] = "cpu"
        \/ n = CudaName /\ \E i \in 1..Len(events) : events[i] = "cuda"
        \/ n = OnnxName /\ \E i \in 1..Len(events) : events[i] = "onnx" }

BiasNames == { n \in LSTMParamNames : startswith(n, "bias") }

\* C1: a store call in which no outside step fails returns with the CPU,
\* ONNX and JS artifacts in the directory, with the CUDA artifact iff CUDA
\* was available, and without CUDA it warns and still exports ONNX and JS.
C1_StoreProducesArtifacts ==
    (ret.op = "store" /\ ret.close /\ ret.fail = "none") =>
        /\ ret.raised = "none"
        /\ CpuName \in DOMAIN FilesOf(ret.dir)
        /\ OnnxName \in DOMAIN FilesOf(ret.dir)
        /\ HasFormat(FilesOf(ret.dir), "tfjs")
        /\ (CudaName \in DOMAIN FilesOf(ret.dir)) <=> ret.cuda_available
        /\ ~ret.cuda_available =>
              \A e \in {"warn", "onnx", "tfjs"} :
                  \E i \in 1..Len(ret.events) : ret.events[i] = e

\* C2: every bias of lstm1 and lstm2 is zero and non-trainable in every
\* state after construction, whatever training steps and store calls ran.
C2_BiasFrozen ==
    self # None =>
        \A n \in BiasNames :
            /\ self.lstm1.data[n] = 0 /\ ~self.lstm1.requires_grad[n]
            /\ self.lstm2.data[n] = 0 /\ ~self.lstm2.requires_grad[n]

C2_Witness ==
    /\ self # None
    /\ ret.op = "training_step"
    /\ CudaName \in DOMAIN FilesOf("out")
    /\ self.lstm1.data[<<"weight", "ih", "l0", "">>] = 2051
    /\ self.out.data[<<"bias">>] = 2051

\* C5 as stated: the directory exists, the paths run in the fixed order, and
\* after a raise the directory holds exactly the artifacts of the paths that
\* completed before the failing one.
C5_DirectoryHoldsExactlyCompleted ==
    ret.op = "store" =>
        /\ fs[ret.dir].exists
        /\ IsPrefix(ret.events, ExportOrder(ret.cuda_available))
        /\ ret.raised # "none" =>
              DOMAIN FilesOf(ret.dir) = Written(ret.events)

\* C5 amended: the directory exists, the paths run in the fixed order, a
\* failure of path 1, 3 or 4 propagates, and after a raise the call has
\* written exactly the artifacts of the paths that completed before the
\* failing one; every other file is as it was before the call.
C5_WritesExactlyCompleted ==
    ret.op = "store" =>
        /\ fs[ret.dir].exists
        /\ Len(ret.events) >= 1 /\ ret.events[1] = "mkdir"
        /\ IsPrefix(ret.events, ExportOrder(ret.cuda_available))
        /\ ret.fail = "path1" /\ ret.close =>
              ret.raised = "ExportError" /\ ret.events = <<"mkdir">>
        /\ ret.fail = "path3" /\ ret.close =>
              /\ ret.raised = "ExportError"
              /\ Len(ret.events) = 3
        /\ ret.fail = "path4" /\ ret.close =>
              /\ ret.raised = "ExportError"
              /\ Len(ret.events) = 4
        /\ ret.raised # "none" =>
              /\ DOMAIN FilesOf(ret.dir) =
                    DOMAIN ret.dir_before.files \cup Written(ret.events)
              /\ \A n \in DOMAIN FilesOf(ret.dir) \ Written(ret.events) :
                    FilesOf(ret.dir)[n] = ret.dir_before.files[n]

C5_Witness ==
    /\ ret.op = "store"
    /\ ret.fail = "path3"
    /\ ret.raised = "ExportError"
    /\ ret.cuda_available
    /\ ret.events = <<"mkdir", "cpu", "cuda">>
    /\ OnnxName \in DOMAIN ret.dir_before.files
    /\ FilesOf(ret.dir)[OnnxName] = ret.dir_before.files[OnnxName]
    /\ FilesOf(ret.dir)[CpuName] # ret.dir_before.files[CpuName]

\* C6: the ONNX graph a store call writes is exported from the parameter
\* values the live network had when store was called.
C6_OnnxFromLiveParameters ==
    (ret.op = "store" /\ OnnxName \in Written(ret.events)) =>
        FilesOf(ret.dir)[OnnxName].weights = ret.live_before

\* C7: a construction whose closeness check fails raises and exposes no
\* instance; a returned instance was checked; when the check fails for the
\* clone that store builds, store raises before writing any artifact.
C7_NoUncheckedInstance ==
    /\ ret.op = "init" =>
          IF ret.close
          THEN ret.raised = "none" /\ ret.instance # None /\ self = ret.instance
          ELSE ret.raised = "AssertionError" /\ ret.instance = None /\ self = None
    /\ (ret.op = "store" /\ ~ret.close) =>
          /\ ret.raised = "AssertionError"
          /\ ret.events = <<"mkdir">>
          /\ FilesOf(ret.dir) = ret.dir_before.files

C7_Witness ==
    /\ ret.op = "store"
    /\ ~ret.close
    /\ ret.raised = "AssertionError"
    /\ DOMAIN FilesOf(ret.dir) # {}

----------------------------------------------------------------------------
(* Exact arithmetic for the metrics.                                       *)
(* A natural number is a sequence of limbs, least significant first, in    *)
(* base 10^9 = 1/eps; a rational is a pair [num, den] of such numbers.     *)
(* The limbs of every number formed below stay under the base, so no       *)
(* carry is needed and the limb-wise comparison is the numeric one.        *)

EpsInv == 1000000000

Nat0 == <<>>

NatOf(n) == IF n = 0 THEN <<>> ELSE <<n>>

Limb(a, i) == IF i <= Len(a) THEN a[i] ELSE 0

Max(a, b) == IF a >= b THEN a ELSE b

RECURSIVE Trim(_)
Trim(a) == IF a # <<>> /\ a[Len(a)] = 0 THEN Trim(SubSeq(a, 1, Len(a) - 1)) ELSE a

NatAdd(a, b) == Trim([i \in 1..Max(Len(a), Len(b)) |-> Limb(a, i) + Limb(b, i)])

RECURSIVE SumTo(_, _, _, _)
\* sum of a[j] * b[k + 1 - j] over j in lo..hi
SumTo(a, b, k, j) ==
    IF j = 0 THEN 0
    ELSE Limb(a, j) * (IF k + 1 - j >= 1 THEN Limb(b, k + 1 - j) ELSE 0)
         + SumTo(a, b, k, j - 1)

NatMul(a, b) ==
    IF a = <<>> \/ b = <<>> THEN <<>>
    ELSE Trim([k \in 1..(Len(a) + Len(b) - 1) |-> SumTo(a, b, k, k)])

\* multiplication by the base: one limb up
ShiftUp(a) == IF a = <<>> THEN <<>> ELSE <<0>> \o a

RECURSIVE NatLeqFrom(_, _, _)
NatLeqFrom(a, b, i) ==
    IF i = 0 THEN TRUE
    ELSE IF Limb(a, i) < Limb(b, i) THEN TRUE
    ELSE IF Limb(a, i) > Limb(b, i) THEN FALSE
    ELSE NatLeqFrom(a, b, i - 1)

NatLeq(a, b) == NatLeqFrom(a, b, Max(Len(a), Len(b)))

LimbsInRange(a) == \A i \in 1..Len(a) : a[i] >= 0 /\ a[i] < EpsInv

Rat(n) == [num |-> NatOf(n), den |-> NatOf(1)]

\* the literal 1e-9
eps == [num |-> NatOf(1), den |-> ShiftUp(NatOf(1))]

RatAdd(x, y) ==
    [num |-> NatAdd(NatMul(x.num, y.den), NatMul(y.num, x.den)),
     den |-> NatMul(x.den, y.den)]

RatMul(x, y) == [num |-> NatMul(x.num, y.num), den |-> NatMul(x.den, y.den)]

\* x / y; a zero denominator of the result marks a division by zero
RatDiv(x, y) == [num |-> NatMul(x.num, y.den), den |-> NatMul(x.den, y.num)]

----------------------------------------------------------------------------
(* validation_step and validation_epoch_end *)

\* logits are in tenths: 5 is 0.5
threshold == 5

Logits == {5, 6}

Labels == {0, 1}

n_channels == 2

\* one row of the flattened (N, 2) predictions and labels
Rows ==
    { [y_hat |-> <<a, b>>, y |-> <<c, d>>] :
        a \in Logits, b \in Logits, c \in Labels, d \in Labels }

\* a plausible slip: the comparison is not strict
PredictedNotStrict(logit) == logit >= threshold

\* pred_flat = y_hat.view((-1, n_labels)) > threshold
Predicted(logit) == logit > threshold

Count(rows, c, pred, label) ==
    Cardinality({ i \in 1..Len(rows) :
                    Predicted(rows[i].y_hat[c]) = pred /\ rows[i].y[c] = label })

\* validation_step on one batch, given as its flattened rows; the loss,
\* a float function of the same rows, is not part of the counts
validation_step(batch) ==
    LET n_labels == Len(batch[1].y)
    IN  [tp |-> [c \in 1..n_labels |-> Count(batch, c, TRUE, 1)],
         fp |-> [c \in 1..n_labels |-> Count(batch, c, TRUE, 0)],
         fn |-> [c \in 1..n_labels |-> Count(batch, c, FALSE, 1)]]

RECURSIVE SumOver(_, _, _)
\* torch.stack([x[key] for x in outputs]).sum(dim=0), channel c
SumOver(outputs, key, c) ==
    IF outputs = <<>> THEN 0
    ELSE outputs[1][key][c] + SumOver(Tail(outputs), key, c)

\* a plausible slip: the epsilon is left out of the denominators
validation_epoch_end_no_eps(outputs) ==
    LET n == Len(outputs[1].tp)
        tp == [c \in 1..n |-> SumOver(outputs, "tp", c)]
        fp == [c \in 1..n |-> SumOver(outputs, "fp", c)]
        fn == [c \in 1..n |-> SumOver(outputs, "fn", c)]
        precision == [c \in 1..n |-> RatDiv(Rat(tp[c]), Rat(tp[c] + fp[c]))]
        recall == [c \in 1..n |-> RatDiv(Rat(tp[c]), Rat(tp[c] + fn[c]))]
        f1 == [c \in 1..n |->
                 RatDiv(RatMul(Rat(2), RatMul(precision[c], recall[c])),
                        RatAdd(precision[c], recall[c]))]
    IN  [tp |-> tp, fp |-> fp, fn |-> fn,
         precision |-> precision, recall |-> recall, f1 |-> f1]

validation_epoch_end(outputs) ==
    LET n == Len(outputs[1].tp)
        tp == [c \in 1..n |-> SumOver(outputs, "tp", c)]
        fp == [c \in 1..n |-> SumOver(outputs, "fp", c)]
        fn == [c \in 1..n |-> SumOver(outputs, "fn", c)]
        precision == [c \in 1..n |->
                        RatDiv(Rat(tp[c]), RatAdd(Rat(tp[c] + fp[c]), eps))]
        recall == [c \in 1..n |->
                     RatDiv(Rat(tp[c]), RatAdd(Rat(tp[c] + fn[c]), eps))]
        f1 == [c \in 1..n |->
                 RatDiv(RatMul(Rat(2), RatMul(precision[c], recall[c])),
                        RatAdd(RatAdd(precision[c], recall[c]), eps))]
    IN  [tp |-> tp, fp |-> fp, fn |-> fn,
         precision |-> precision, recall |-> recall, f1 |-> f1]

RowSeqs(n) == UNION { [1..k -> Rows] : k \in 1..n }

InitVal ==
    /\ self = None
    /\ fs = [d \in Dirs |-> NoDir]
    /\ ret = NoRet
    /\ val_seen = <<>>
    /\ val_outputs = <<>>
    /\ dataset_len = 0
    /\ mt_stream = <<>>
    /\ train_indices = <<>>
    /\ valid_indeces = <<>>
    /\ epoch_indices = EmptyBag
    /\ val_iterated = <<>>

\* the validation loop hands the next batch of the pass to validation_step
ValidationStep ==
    /\ ret.op # "validation_epoch_end"     \* the model follows one pass
    /\ Len(val_seen) < MaxValPositions
    /\ \E batch \in RowSeqs(MaxValPositions - Len(val_seen)) :
          /\ val_outputs' = Append(val_outputs, validation_step(batch))
          /\ val_seen' = val_seen \o batch
          /\ ret' = [op |-> "validation_step"]
    /\ UNCHANGED <<netVars, dataVars>>

\* the validation loop ends the pass: validation_epoch_end(outputs)
ValidationEpochEnd ==
    /\ val_outputs # <<>>
    /\ ret' = [op |-> "validation_epoch_end",
               metrics |-> validation_epoch_end(val_outputs),
               outputs |-> val_outputs, seen |-> val_seen]
    /\ val_outputs' = <<>>
    /\ val_seen' = <<>>
    /\ UNCHANGED <<netVars, dataVars>>

NextVal == ValidationStep \/ ValidationEpochEnd

SpecVal == InitVal /\ [][NextVal]_vars

\* validation_epoch_end applied to the counts of one batch, every count
\* drawn from 0..MaxCount
Counts == [1..n_channels -> 0..MaxCount]

InitMetrics ==
    /\ self = None
    /\ fs = [d \in Dirs |-> NoDir]
    /\ ret = NoRet
    /\ val_seen = <<>>
    /\ \E tp \in Counts, fp \in Counts, fn \in Counts :
          val_outputs = <<[tp |-> tp, fp |-> fp, fn |-> fn]>>
    /\ dataset_len = 0
    /\ mt_stream = <<>>
    /\ train_indices = <<>>
    /\ valid_indeces = <<>>
    /\ epoch_indices = EmptyBag
    /\ val_iterated = <<>>

EpochEnd ==
    /\ val_outputs # <<>>
    /\ ret' = [op |-> "validation_epoch_end",
               metrics |-> validation_epoch_end(val_outputs),
               outputs |-> val_outputs, seen |-> val_seen]
    /\ val_outputs' = <<>>
    /\ UNCHANGED <<netVars, val_seen, dataVars>>

SpecMetrics == InitMetrics /\ [][EpochEnd]_vars

----------------------------------------------------------------------------
(* Properties of the validation counters and metrics *)

\* the counts over a whole list of rows, the prediction being logit > 0.5
WholeCount(rows, c, pred, label) ==
    Cardinality({ i \in 1..Len(rows) :
                    (rows[i].y_hat[c] > threshold) = pred /\ rows[i].y[c] = label })

Defined(x) == x.den # Nat0 /\ LimbsInRange(x.num) /\ LimbsInRange(x.den)

InUnitInterval(x) == NatLeq(x.num, x.den)

\* x = n / (d + 1e-9), by cross-multiplication
IsQuotientWithEps(x, n, d) ==
    NatMul(x.num, NatAdd(ShiftUp(NatOf(d)), NatOf(1)))
        = NatMul(ShiftUp(NatOf(n)), x.den)

\* C3: for the summed counts of every channel, precision, recall and F1 are
\* the stated quotients, are defined (no zero denominator) also when all
\* three counts are zero, lie in [0, 1], and F1 is 0 when TP = 0 < FP + FN.
C3_MetricsInUnitInterval ==
    ret.op = "validation_epoch_end" =>
        \A c \in 1..n_channels :
            LET m == ret.metrics
            IN  /\ Defined(m.precision[c])
                /\ Defined(m.recall[c])
                /\ Defined(m.f1[c])
                /\ IsQuotientWithEps(m.precision[c], m.tp[c], m.tp[c] + m.fp[c])
                /\ IsQuotientWithEps(m.recall[c], m.tp[c], m.tp[c] + m.fn[c])
                /\ InUnitInterval(m.precision[c])
                /\ InUnitInterval(m.recall[c])
                /\ InUnitInterval(m.f1[c])
                /\ (m.tp[c] = 0 /\ m.fp[c] + m.fn[c] > 0) => m.f1[c].num = Nat0

C3_Witness ==
    /\ ret.op = "validation_epoch_end"
    /\ ret.metrics.tp[1] = 0 /\ ret.metrics.fp[1] + ret.metrics.fn[1] > 0
    /\ ret.metrics.tp[2] = 0 /\ ret.metrics.fp[2] = 0 /\ ret.metrics.fn[2] = 0
    /\ ret.metrics.f1[2].num = Nat0 /\ ret.metrics.f1[2].den # Nat0

\* C9: a row is predicted positive iff its logit is above 0.5 and falls in
\* exactly one of TP, FP, FN, TN; the per-batch counts summed over any
\* split into batches are the counts over the whole set, so TP + FN is the
\* number of positive labels and TP + FP the number of positive predictions.
C9_SummedCountsAreWholeCounts ==
    /\ \A c \in 1..n_channels :
          /\ SumOver(val_outputs, "tp", c) = WholeCount(val_seen, c, TRUE, 1)
          /\ SumOver(val_outputs, "fp", c) = WholeCount(val_seen, c, TRUE, 0)
          /\ SumOver(val_outputs, "fn", c) = WholeCount(val_seen, c, FALSE, 1)
    /\ ret.op = "validation_epoch_end" =>
          \A c \in 1..n_channels :
              LET m == ret.metrics
                  rows == ret.seen
                  tn == WholeCount(rows, c, FALSE, 0)
              IN  /\ m.tp[c] = WholeCount(rows, c, TRUE, 1)
                  /\ m.fp[c] = WholeCount(rows, c, TRUE, 0)
                  /\ m.fn[c] = WholeCount(rows, c, FALSE, 1)
                  /\ m.tp[c] + m.fp[c] + m.fn[c] + tn = Len(rows)
                  /\ m.tp[c] + m.fn[c] =
                        Cardinality({ i \in 1..Len(rows) : rows[i].y[c] = 1 })
                  /\ m.tp[c] + m.fp[c] =
                        Cardinality({ i \in 1..Len(rows) :
                                        rows[i].y_hat[c] > threshold })

C9_Witness ==
    /\ ret.op = "validation_epoch_end"
    /\ Len(ret.outputs) = 2
    /\ ret.seen[1].y_hat[1] = threshold /\ ret.seen[1].y[1] = 1
    /\ ret.seen[2].y_hat[1] > threshold /\ ret.seen[2].y[1] = 1
    /\ ret.metrics.tp[1] = 1 /\ ret.metrics.fn[1] = 1

----------------------------------------------------------------------------
(* prepare_data and the data loaders *)

test_size == 20000

\* the generator streams told apart (a stream is what a seed, or fresh
\* entropy, makes of the Mersenne Twister)
Streams == 0..2

\* an index other than the one taking the remainder is drawn this often
Repeats == 0..1

random_state == 1234

epoch_size == 30000

\* rng.permutation(n) of the split: the Mersenne Twister is not reproduced;
\* the permutation is a fixed function of the generator stream, here the
\* rotation of 0..n-1 by the stream's offset
permutation(n, stream) == [i \in 1..n |-> (i - 1 + stream) % n]

\* train_test_split(np.arange(n), test_size=..., random_state=...):
\* ShuffleSplit puts the first test_size entries of the permutation in the
\* test part and the rest in the train part, and refuses an empty train part
train_test_split(n, n_test, stream) ==
    IF n_test >= n
    THEN [raised |-> "ValueError", train |-> <<>>, test |-> <<>>]
    ELSE LET perm == permutation(n, stream)
         IN  [raised |-> "none",
              train |-> SubSeq(perm, n_test + 1, n),
              test |-> SubSeq(perm, 1, n_test)]

\* a plausible slip: random_state is left out, the stream comes from fresh entropy
prepare_data_unseeded(n, entropy) == train_test_split(n, test_size, entropy)

\* prepare_data for a dataset of n examples
prepare_data(n, entropy) ==
    train_test_split(n, test_size, mt_stream[random_state])

RECURSIVE SumCounts(_, _)
SumCounts(c, dom) ==
    IF dom = {} THEN 0
    ELSE LET i == CHOOSE j \in dom : TRUE
         IN  c[i] + SumCounts(c, dom \ {i})

\* the index multisets np.random.choice(np.arange(n), size) is let to
\* return here: one index takes what the others, each drawn a number of
\* times in Repeats, leave of the size
choice(n, size) ==
    UNION { { LET counts == [i \in 0..(n - 1) |->
                              IF i = p THEN size - SumCounts(c, DOMAIN c)
                              ELSE c[i]]
              IN  [i \in { j \in 0..(n - 1) : counts[j] > 0 } |-> counts[i]] :
                c \in [(0..(n - 1)) \ {p} -> Repeats] } :
            p \in 0..(n - 1) }

\* a plausible slip: the upper end of the index range is included
train_dataloader_inclusive(train) == choice(Len(train) + 1, epoch_size)

\* train_dataloader: the possible epoch_indices over self.train_dataset
train_dataloader(train) == choice(Len(train), epoch_size)

\* val_dataloader: the examples in the order the loader yields them
\* (shuffle=False, batches of 256 laid end to end)
val_dataloader(valid) == [i \in 1..Len(valid) |-> valid[i]]

InitData ==
    /\ self = None
    /\ fs = [d \in Dirs |-> NoDir]
    /\ ret = NoRet
    /\ val_seen = <<>>
    /\ val_outputs = <<>>
    /\ dataset_len \in test_size..(test_size + MaxExtra)
    /\ mt_stream \in [{random_state} -> Streams]
    /\ train_indices = <<>>
    /\ valid_indeces = <<>>
    /\ epoch_indices = EmptyBag
    /\ val_iterated = <<>>

PrepareData ==
    /\ \E entropy \in Streams :
          LET split == prepare_data(dataset_len, entropy)
          IN  /\ ret' = [op |-> "prepare_data", raised |-> split.raised]
              /\ IF split.raised = "none"
                 THEN /\ train_indices' = split.train
                      /\ valid_indeces' = split.test
                 ELSE UNCHANGED <<train_indices, valid_indeces>>
    /\ UNCHANGED <<netVars, valVars, dataset_len, mt_stream, epoch_indices,
                   val_iterated>>

TrainDataloader ==
    /\ train_indices # <<>>
    /\ \E drawn \in train_dataloader(train_indices) :
          /\ epoch_indices' = drawn
          /\ ret' = [op |-> "train_dataloader",
                     first |-> epoch_indices = EmptyBag,
                     resampled |-> drawn # epoch_indices]
    /\ UNCHANGED <<netVars, valVars, dataset_len, mt_stream, train_indices,
                   valid_indeces, val_iterated>>

ValDataloader ==
    /\ valid_indeces # <<>>
    /\ val_iterated' = val_dataloader(valid_indeces)
    /\ ret' = [op |-> "val_dataloader"]
    /\ UNCHANGED <<netVars, valVars, dataset_len, mt_stream, train_indices,
                   valid_indeces, epoch_indices>>

NextData == PrepareData \/ TrainDataloader \/ ValDataloader

SpecData == InitData /\ [][NextData]_vars

----------------------------------------------------------------------------
(* Properties of the data loaders *)

Range(seq) == { seq[i] : i \in 1..Len(seq) }

\* C4: every epoch sample holds exactly 30,000 indices, each within
\* 0 .. len(train_dataset) - 1, for every non-empty training set; with
\* fewer than 30,000 examples some index repeats.
C4_EpochSample ==
    epoch_indices # EmptyBag =>
        /\ Len(train_indices) >= 1
        /\ BagCardinality(epoch_indices) = 30000
        /\ \A i \in BagToSet(epoch_indices) : 0 <= i /\ i < Len(train_indices)
        /\ Len(train_indices) < 30000 =>
              \E i \in BagToSet(epoch_indices) : CopiesIn(i, epoch_indices) > 1

\* a second call has drawn another multiset than the first
C4_Witness ==
    /\ ret.op = "train_dataloader"
    /\ ~ret.first
    /\ ret.resampled
    /\ Len(train_indices) = 2
    /\ BagToSet(epoch_indices) = {0, 1}

C10_SplitState ==
    valid_indeces # <<>> =>
        /\ dataset_len > 20000
        /\ Len(valid_indeces) = 20000
        /\ Len(train_indices) = dataset_len - 20000
        /\ Range(train_indices) \cap Range(valid_indeces) = {}
        /\ Range(train_indices) \cup Range(valid_indeces) = 0..(dataset_len - 1)
        /\ \A i \in BagToSet(epoch_indices) :
              train_indices[i + 1] \notin Range(valid_indeces)
        /\ val_iterated # <<>> => val_iterated = valid_indeces

C10_SplitStep ==
    valid_indeces # <<>> =>
        /\ valid_indeces' = valid_indeces
        /\ train_indices' = train_indices

\* C10: once prepare_data has split a dataset of more than 20,000 examples,
\* the validation part has exactly 20,000 of them, the two parts are
\* disjoint and cover the dataset, no later call (prepare_data again
\* included) changes the split, every example of an epoch sample lies
\* outside the validation part, and the validation loader iterates the
\* validation part.
C10_SplitFixedAndDisjoint == []C10_SplitState /\ [][C10_SplitStep]_vars

\* prepare_data has run again after an epoch sample and a validation loader
C10_Witness ==
    /\ ret.op = "prepare_data"
    /\ ret.raised = "none"
    /\ dataset_len = test_size + 2
    /\ epoch_indices # EmptyBag
    /\ val_iterated # <<>>

====
